---------------------------- MODULE Spec2Model ----------------------------
(* EntityRepository<T> (src/src/index.ts): a repository class that forwards  *)
(* to a Mongoose model and translates driver errors into HttpExceptions.     *)
(* The model keeps the collection, the driver sessions with their            *)
(* transactions, the calls in flight of updateById and the outcome of the    *)
(* last completed call of every other method.                                *)
EXTENDS Integers, Sequences, FiniteSets, TLC

VARIABLES repo, store, sessions, procs, last, probe

vars == <<repo, store, sessions, procs, last, probe>>

-----------------------------------------------------------------------------
(* Bounds of the model.                                                      *)

MaxSessions == 2

Ids == {"id1", "id2"}
Names == {"ann", "bob"}
MaxVersion == 1
Versions == 0..MaxVersion
Procs == {1, 2}

-----------------------------------------------------------------------------
(* HttpStatus values used by the repository.                                 *)

BAD_REQUEST == 400
NOT_FOUND == 404
CONFLICT == 409
INTERNAL_SERVER_ERROR == 500

-----------------------------------------------------------------------------
(* Error values. One record shape serves the driver's errors (type           *)
(* "MongoError", with an optional numeric code and an optional keyValue),    *)
(* HttpException (status and message), the Error of the constructor and the  *)
(* TypeError the JavaScript runtime raises.                                  *)

NoKeyValue == [present |-> FALSE, values |-> <<>>]

KeyValue(vals) == [present |-> TRUE, values |-> vals]

NoError ==
  [type |-> "none", status |-> 0, message |-> "", hasCode |-> FALSE,
   code |-> 0, keyValue |-> NoKeyValue]

HttpException(message, status) ==
  [type |-> "HttpException", status |-> status, message |-> message,
   hasCode |-> FALSE, code |-> 0, keyValue |-> NoKeyValue]

TypeError(message) ==
  [type |-> "TypeError", status |-> 0, message |-> message,
   hasCode |-> FALSE, code |-> 0, keyValue |-> NoKeyValue]

PlainError(message) ==
  [type |-> "Error", status |-> 0, message |-> message,
   hasCode |-> FALSE, code |-> 0, keyValue |-> NoKeyValue]

MongoError(hasCode, code, keyValue) ==
  [type |-> "MongoError", status |-> 0, message |-> "driver error",
   hasCode |-> hasCode, code |-> IF hasCode THEN code ELSE 0,
   keyValue |-> keyValue]

(* Object.values(error.keyValue)[0], as the template literal prints it.      *)
FirstValue(keyValue) ==
  IF Len(keyValue.values) = 0 THEN "undefined" ELSE keyValue.values[1]

(* handleDatabaseError(error): logs when options.errLogger is set, then      *)
(* throws. The result is the exception that leaves the method: the           *)
(* HttpException of the switch, or the TypeError of Object.values(undefined) *)
(* when a code 11000 error carries no keyValue.                              *)
handleDatabaseError(error, errLogger) ==
  [logged |-> errLogger,
   exc |->
     IF error.hasCode /\ error.code = 11000 /\ ~error.keyValue.present
       THEN TypeError("Cannot convert undefined or null to object")
     ELSE IF error.hasCode /\ error.code = 11000
       THEN HttpException(FirstValue(error.keyValue) \o " already exists",
                          BAD_REQUEST)
     ELSE IF error.hasCode /\ error.code = 11001
       THEN HttpException("Duplicate key error", BAD_REQUEST)
     ELSE IF error.hasCode /\ error.code = 12000
       THEN HttpException("Invalid index specification", BAD_REQUEST)
     ELSE IF error.hasCode /\ error.code = 12010
       THEN HttpException("Cannot build index on a non-existing field",
                          BAD_REQUEST)
     ELSE IF error.hasCode /\ error.code = 12102
       THEN HttpException("Index key too long", BAD_REQUEST)
     ELSE IF error.hasCode /\ error.code = 12134
       THEN HttpException("Index not found", BAD_REQUEST)
     ELSE HttpException("Database operation failed", INTERNAL_SERVER_ERROR)]

-----------------------------------------------------------------------------
(* Documents, the collection and the driver's sessions.                      *)

NoDoc == [exists |-> FALSE, v |-> 0, name |-> ""]

Doc(v, name) == [exists |-> TRUE, v |-> v, name |-> name]

EmptyCollection == [i \in Ids |-> NoDoc]

NoWrites == [i \in Ids |-> [written |-> FALSE, doc |-> NoDoc]]

(* Errors the driver raises on its own account in this model: a failure      *)
(* without a code (network, state of the session) and a server error with a  *)
(* code outside the table (112, WriteConflict).                              *)
DriverFailures == {MongoError(FALSE, 0, NoKeyValue)}

WriteConflictError == MongoError(TRUE, 112, NoKeyValue)

DuplicateKeyError(id) == MongoError(TRUE, 11000, KeyValue(<<id>>))

(* entityModel.startSession() followed by session.startTransaction(): a      *)
(* session that is not ended, with a transaction in progress and nothing     *)
(* read or written yet. owner is 0 for a session handed to the caller and    *)
(* the process number for the session of an updateById call. calls is the    *)
(* sequence of driver calls the repository issued on the session.            *)
NewSession(owner) ==
  [ended |-> FALSE, txn |-> "active", hasSnap |-> FALSE,
   snap |-> EmptyCollection, writes |-> NoWrites, stale |-> {},
   failed |-> FALSE, owner |-> owner,
   calls |-> <<"startSession", "startTransaction">>]

SessionIds == 1..Len(sessions)

(* The first operation of a transaction fixes the snapshot it reads.         *)
TakeSnap(s) ==
  IF s.hasSnap THEN s ELSE [s EXCEPT !.hasSnap = TRUE, !.snap = store]

(* What a read inside the transaction of session s sees of document id.      *)
View(s, id) ==
  IF s.writes[id].written THEN s.writes[id].doc
  ELSE IF s.hasSnap THEN s.snap[id] ELSE store[id]

(* Another transaction in progress holds an uncommitted write of id.         *)
LockedByOther(i, id) ==
  \E j \in SessionIds :
    /\ j # i
    /\ sessions[j].txn = "active"
    /\ sessions[j].writes[id].written

(* A mutation of the server: a write inside a transaction is never refused.  *)
NeverConflicts(i, id) == FALSE

(* The server refuses a write of id in the transaction of session i: the     *)
(* document changed after the snapshot was taken, or another transaction     *)
(* in progress has written it.                                               *)
WriteConflict(i, id) == id \in sessions[i].stale \/ LockedByOther(i, id)

WrittenIds(s) == {id \in Ids : s.writes[id].written}

(* The collection after the writes of session s are committed.               *)
Committed(s) ==
  [id \in Ids |-> IF s.writes[id].written THEN s.writes[id].doc ELSE store[id]]

(* Sessions after session i commits: its transaction is committed, and the   *)
(* documents it wrote are stale for every other transaction in progress      *)
(* that has taken its snapshot.                                              *)
AfterCommit(i, call) ==
  [j \in SessionIds |->
     IF j = i
       THEN [sessions[j] EXCEPT !.txn = "committed", !.writes = NoWrites,
                                !.calls = Append(@, call)]
     ELSE IF sessions[j].txn = "active" /\ sessions[j].hasSnap
       THEN [sessions[j] EXCEPT !.stale = @ \cup WrittenIds(sessions[i])]
     ELSE sessions[j]]

(* Session s after its transaction is aborted: its writes are dropped.       *)
Aborted(s) ==
  [s EXCEPT !.txn = "aborted", !.writes = NoWrites, !.stale = {}]

(* session.endSession(): the session is ended; the driver aborts a           *)
(* transaction still in progress.                                            *)
Ended(s) ==
  [(IF s.txn = "active" THEN Aborted(s) ELSE s)
     EXCEPT !.ended = TRUE, !.calls = Append(@, "endSession")]

-----------------------------------------------------------------------------
(* The outcome of the last completed call of a method other than updateById. *)

NoLast ==
  [op |-> "none", kind |-> "none", exc |-> NoError, driverFailed |-> FALSE,
   logged |-> FALSE, doc |-> NoDoc, ids |-> {}, sid |-> 0, id |-> "",
   n |-> 0, flag |-> FALSE,
   filter |-> [all |-> FALSE, name |-> ""], name |-> "",
   opts |-> [given |-> FALSE, versionKey |-> "", incVersion |-> FALSE,
             upsert |-> FALSE],
   arg |-> [given |-> FALSE, entityModel |-> FALSE, errLogger |-> FALSE]]

Returns(op) == [NoLast EXCEPT !.op = op, !.kind = "return"]

(* The catch blocks: this.handleDatabaseError(err) throws in place of err.   *)
Translated(op, err, driverFailed) ==
  [NoLast EXCEPT !.op = op, !.kind = "throw", !.driverFailed = driverFailed,
                 !.exc = handleDatabaseError(err, repo.errLogger).exc,
                 !.logged = handleDatabaseError(err, repo.errLogger).logged]

(* No catch block around the call: the driver's error leaves the method.     *)
Raw(op, err) ==
  [NoLast EXCEPT !.op = op, !.kind = "throw", !.driverFailed = TRUE,
                 !.exc = err]

-----------------------------------------------------------------------------
(* The constructor.                                                          *)

NoRepo == [exists |-> FALSE, entityModel |-> FALSE, errLogger |-> FALSE]

(* The arguments of the constructor: no argument (given FALSE), or an        *)
(* options object with or without entityModel and with or without errLogger  *)
(* (an absent errLogger reads as undefined, which is falsy).                 *)
CtorArgs ==
  [given : {FALSE}, entityModel : {FALSE}, errLogger : {FALSE}]
    \cup [given : {TRUE}, entityModel : BOOLEAN, errLogger : BOOLEAN]

(* The default parameter value { errLogger: false } stands for a missing     *)
(* argument.                                                                 *)
OptionsOf(arg) ==
  IF arg.given THEN arg
  ELSE [given |-> TRUE, entityModel |-> FALSE, errLogger |-> FALSE]

(* A mutation of the constructor: the check of entityModel is left out.      *)
ConstructUnchecked(arg) ==
  /\ ~repo.exists
  /\ repo' = [exists |-> TRUE, entityModel |-> OptionsOf(arg).entityModel,
              errLogger |-> OptionsOf(arg).errLogger]
  /\ last' = [Returns("constructor") EXCEPT !.arg = arg]
  /\ UNCHANGED <<store, sessions, procs, probe>>

(* new Repository(arg): throws when options.entityModel is falsy, and no     *)
(* instance comes to exist; otherwise the instance keeps the options.        *)
Construct(arg) ==
  /\ ~repo.exists
  /\ IF ~OptionsOf(arg).entityModel
       THEN /\ last' = [NoLast EXCEPT !.op = "constructor", !.kind = "throw",
                          !.arg = arg,
                          !.exc = PlainError("entityModel is required")]
            /\ repo' = repo
       ELSE /\ repo' = [exists |-> TRUE, entityModel |-> TRUE,
                        errLogger |-> OptionsOf(arg).errLogger]
            /\ last' = [Returns("constructor") EXCEPT !.arg = arg]
  /\ UNCHANGED <<store, sessions, procs, probe>>

-----------------------------------------------------------------------------
(* Queries.                                                                  *)

(* A filter query: every document, or the documents with a given name.       *)
Filters == [all : {TRUE}, name : {""}] \cup [all : {FALSE}, name : Names]

Matches(filter, doc) == doc.exists /\ (filter.all \/ doc.name = filter.name)

Matching(filter) == {id \in Ids : Matches(filter, store[id])}

(* find(filter): the query is returned without a try block around it; an     *)
(* error of the driver rejects the promise the caller holds.                 *)
Find(filter) ==
  /\ repo.exists
  /\ \/ last' = [Returns("find") EXCEPT !.ids = Matching(filter)]
     \/ \E e \in DriverFailures : last' = Raw("find", e)
  /\ UNCHANGED <<repo, store, sessions, procs, probe>>

(* A mutation of findOne: a query without a match throws NOT_FOUND, as       *)
(* findById does.                                                            *)
FindOneOrThrow(filter) ==
  /\ repo.exists
  /\ \/ /\ Matching(filter) = {}
        /\ last' = [Translated("findOne",
                               HttpException("No data found", NOT_FOUND), FALSE)
                      EXCEPT !.filter = filter]
     \/ \E id \in Matching(filter) :
          last' = [Returns("findOne") EXCEPT !.doc = store[id], !.id = id,
                                            !.filter = filter]
  /\ UNCHANGED <<repo, store, sessions, procs, probe>>

(* findOne(filter): as find, for one matching document or null.              *)
FindOne(filter) ==
  /\ repo.exists
  /\ \/ /\ Matching(filter) = {}
        /\ last' = [Returns("findOne") EXCEPT !.filter = filter]
     \/ \E id \in Matching(filter) :
          last' = [Returns("findOne") EXCEPT !.doc = store[id], !.id = id,
                                            !.filter = filter]
     \/ \E e \in DriverFailures :
          last' = [Raw("findOne", e) EXCEPT !.filter = filter]
  /\ UNCHANGED <<repo, store, sessions, procs, probe>>

(* count(filter): countDocuments inside a try block.                         *)
Count(filter) ==
  /\ repo.exists
  /\ \/ last' = [Returns("count") EXCEPT !.n = Cardinality(Matching(filter))]
     \/ \E e \in DriverFailures : last' = Translated("count", e, TRUE)
  /\ UNCHANGED <<repo, store, sessions, procs, probe>>

(* findById(id): the document, or an HttpException NOT_FOUND thrown inside   *)
(* the try block, which the catch block hands to handleDatabaseError like    *)
(* an error of the driver.                                                   *)
FindById(id) ==
  /\ repo.exists
  /\ \/ /\ store[id].exists
        /\ last' = [Returns("findById") EXCEPT !.doc = store[id], !.id = id]
     \/ /\ ~store[id].exists
        /\ last' = [Translated("findById",
                               HttpException("No data found with ID " \o id,
                                             NOT_FOUND), FALSE)
                      EXCEPT !.id = id]
     \/ \E e \in DriverFailures :
          last' = [Translated("findById", e, TRUE) EXCEPT !.id = id]
  /\ UNCHANGED <<repo, store, sessions, procs, probe>>

(* fullTextSearch: the filter { [searchField]: { $regex: searchText,         *)
(* $options: "i" } }. A text is a sequence of characters; "." in a regular   *)
(* expression stands for any character.                                      *)
Letters ==
  [n \in Names |-> IF n = "ann" THEN <<"a", "n", "n">> ELSE <<"b", "o", "b">>]

SearchTexts == {<<>>, <<"N">>, <<"a", "n">>, <<"B", ".", "b">>, <<"x">>}

SearchFields == {"name", "title"}

(* $options: "i": letters are compared without regard to case.               *)
Lower(ch) ==
  CASE ch = "A" -> "a" [] ch = "B" -> "b" [] ch = "N" -> "n"
    [] ch = "O" -> "o" [] OTHER -> ch

(* The regular expression matches the characters of s from position k on.    *)
MatchesAt(text, s, k) ==
  \A j \in 1..Len(text) :
    text[j] = "." \/ Lower(text[j]) = Lower(s[k + j - 1])

(* $regex without anchors: a match anywhere in the value.                    *)
RegexMatches(text, s) ==
  \E k \in 1..(Len(s) - Len(text) + 1) : MatchesAt(text, s, k)

(* The documents whose field searchField is a string the expression matches; *)
(* name is the one string field of a document.                               *)
Searching(text, field) ==
  {id \in Ids : /\ store[id].exists
                /\ field = "name"
                /\ RegexMatches(text, Letters[store[id].name])}

(* fullTextSearch(searchText, searchField): the promise of exec() is         *)
(* returned from inside the try block without await, so a rejection of it    *)
(* does not pass through the catch block.                                    *)
FullTextSearch(text, field) ==
  /\ repo.exists
  /\ \/ last' = [Returns("fullTextSearch") EXCEPT !.ids = Searching(text, field)]
     \/ \E e \in DriverFailures : last' = Raw("fullTextSearch", e)
  /\ UNCHANGED <<repo, store, sessions, procs, probe>>

-----------------------------------------------------------------------------
(* create, with or without a session in its options.                         *)

(* Every other transaction in progress that has taken its snapshot sees the  *)
(* documents of ids as changed since.                                        *)
MarkStale(ids) ==
  [j \in SessionIds |->
     IF sessions[j].txn = "active" /\ sessions[j].hasSnap
       THEN [sessions[j] EXCEPT !.stale = @ \cup ids]
       ELSE sessions[j]]

(* The sessions the caller holds and may still use in a transaction.         *)
UserSessions ==
  {i \in SessionIds :
     sessions[i].owner = 0 /\ ~sessions[i].ended /\ sessions[i].txn = "active"}

(* The repository has issued the driver call on the session.                 *)
Issued(s, call) == \E k \in 1..Len(s.calls) : s.calls[k] = call

(* The sessions whose transaction can still take an operation: none has      *)
(* failed in it.                                                             *)
UsableSessions == {i \in UserSessions : ~sessions[i].failed}

(* create(entity): new entityModel(entity).save(). The document starts at    *)
(* version 0. A second document with the same _id is the driver's error      *)
(* 11000. A write to a document that a transaction in progress has written   *)
(* waits for that transaction (the action is not enabled).                   *)
Create(id, name) ==
  /\ repo.exists
  /\ ~LockedByOther(0, id)
  /\ \/ /\ ~store[id].exists
        /\ store' = [store EXCEPT ![id] = Doc(0, name)]
        /\ sessions' = MarkStale({id})
        /\ last' = [Returns("create") EXCEPT !.doc = Doc(0, name), !.id = id]
     \/ /\ store[id].exists
        /\ last' = [Translated("create", DuplicateKeyError(id), TRUE)
                      EXCEPT !.id = id]
        /\ UNCHANGED <<store, sessions>>
     \/ /\ \E e \in DriverFailures :
             last' = [Translated("create", e, TRUE) EXCEPT !.id = id]
        /\ UNCHANGED <<store, sessions>>
  /\ UNCHANGED <<repo, procs, probe>>

(* create(entity, { session }): the save runs in the transaction of the      *)
(* session; nothing is stored before the transaction commits. A failed       *)
(* operation leaves the transaction unable to commit.                        *)
CreateInSession(id, name, i) ==
  /\ repo.exists
  /\ i \in UsableSessions
  /\ LET s == TakeSnap(sessions[i])
         t == [s EXCEPT !.calls = Append(@, "save")]
         fail(e) ==
           /\ sessions' = [sessions EXCEPT ![i] = [t EXCEPT !.failed = TRUE]]
           /\ last' = [Translated("create", e, TRUE) EXCEPT !.id = id,
                                                          !.sid = i]
     IN  \/ /\ ~View(s, id).exists
            /\ ~WriteConflict(i, id)
            /\ sessions' =
                 [sessions EXCEPT ![i] =
                    [t EXCEPT !.writes[id] =
                       [written |-> TRUE, doc |-> Doc(0, name)]]]
            /\ last' = [Returns("create") EXCEPT !.doc = Doc(0, name),
                                                 !.id = id, !.sid = i]
         \/ /\ View(s, id).exists
            /\ fail(DuplicateKeyError(id))
         \/ /\ ~View(s, id).exists
            /\ WriteConflict(i, id)
            /\ fail(WriteConflictError)
         \/ \E e \in DriverFailures : fail(e)
  /\ UNCHANGED <<repo, store, procs, probe>>

-----------------------------------------------------------------------------
(* updateOne and updateMany.                                                 *)

(* No transaction in progress holds a write to one of the documents.         *)
Unlocked(ids) == \A id \in ids : ~LockedByOther(0, id)

(* The update { name: name } applied to a document: the other fields stay.   *)
Renamed(doc, name) == [doc EXCEPT !.name = name]

(* The collection after the update is applied to the documents of ids.       *)
WithRenamed(ids, name) ==
  [id \in Ids |-> IF id \in ids THEN Renamed(store[id], name) ELSE store[id]]

(* The driver's modifiedCount: the documents of ids the update changed.      *)
ModifiedCount(ids, name) ==
  Cardinality({id \in ids : Renamed(store[id], name) # store[id]})

(* updateResult.modifiedCount || 0                                           *)
OrZero(modifiedCount) == IF modifiedCount # 0 THEN modifiedCount ELSE 0

(* A mutation of updateOne: the result is the driver's matchedCount.         *)
UpdateOneMatched(filter, name) ==
  /\ repo.exists
  /\ Unlocked(Matching(filter))
  /\ \/ /\ Matching(filter) = {}
        /\ last' = [Returns("updateOne") EXCEPT !.filter = filter,
                                                !.name = name]
        /\ UNCHANGED <<store, sessions>>
     \/ \E id \in Matching(filter) :
          /\ store' = WithRenamed({id}, name)
          /\ sessions' = MarkStale({id})
          /\ last' = [Returns("updateOne") EXCEPT !.filter = filter,
                                                  !.name = name, !.n = 1]
     \/ \E e \in DriverFailures :
          /\ last' = [Translated("updateOne", e, TRUE)
                        EXCEPT !.filter = filter, !.name = name]
          /\ UNCHANGED <<store, sessions>>
  /\ UNCHANGED <<repo, procs, probe>>

(* updateOne(filterQuery, update): the driver applies the update to the      *)
(* first matching document, if there is one, and counts it when the update   *)
(* changed it.                                                               *)
UpdateOne(filter, name) ==
  /\ repo.exists
  /\ Unlocked(Matching(filter))
  /\ \/ /\ Matching(filter) = {}
        /\ last' = [Returns("updateOne")
                      EXCEPT !.filter = filter, !.name = name,
                             !.n = OrZero(ModifiedCount({}, name))]
        /\ UNCHANGED <<store, sessions>>
     \/ \E id \in Matching(filter) :
          /\ store' = WithRenamed({id}, name)
          /\ sessions' = MarkStale({id})
          /\ last' = [Returns("updateOne")
                        EXCEPT !.filter = filter, !.name = name,
                               !.n = OrZero(ModifiedCount({id}, name))]
     \/ \E e \in DriverFailures :
          /\ last' = [Translated("updateOne", e, TRUE)
                        EXCEPT !.filter = filter, !.name = name]
          /\ UNCHANGED <<store, sessions>>
  /\ UNCHANGED <<repo, procs, probe>>

(* updateMany(filterQuery, update): the update applied to every matching     *)
(* document.                                                                 *)
UpdateMany(filter, name) ==
  /\ repo.exists
  /\ Unlocked(Matching(filter))
  /\ \/ /\ store' = WithRenamed(Matching(filter), name)
        /\ sessions' = MarkStale(Matching(filter))
        /\ last' = [Returns("updateMany")
                      EXCEPT !.filter = filter, !.name = name,
                             !.n = OrZero(ModifiedCount(Matching(filter), name))]
     \/ \E e \in DriverFailures :
          /\ last' = [Translated("updateMany", e, TRUE)
                        EXCEPT !.filter = filter, !.name = name]
          /\ UNCHANGED <<store, sessions>>
  /\ UNCHANGED <<repo, procs, probe>>

-----------------------------------------------------------------------------
(* findOneAndUpdate.                                                         *)

(* The options argument: absent, or an object with its three fields.         *)
VersionKeys == {"__v", "rev"}

UpdateOptions ==
  [given : {FALSE}, versionKey : {""}, incVersion : {FALSE}, upsert : {FALSE}]
    \cup [given : {TRUE}, versionKey : VersionKeys, incVersion : BOOLEAN,
          upsert : BOOLEAN]

(* The default parameter value stands for a missing argument.                *)
UpdateOptionsOf(options) ==
  IF options.given THEN options
  ELSE [given |-> TRUE, versionKey |-> "__v", incVersion |-> FALSE,
        upsert |-> FALSE]

(* $inc: { [options.versionKey]: 1 } is added when options.incVersion; it    *)
(* raises __v when the version key is "__v".                                 *)
IncrementsVersion(options) ==
  UpdateOptionsOf(options).incVersion
    /\ UpdateOptionsOf(options).versionKey = "__v"

(* The update of findOneAndUpdate applied to a stored document.              *)
Updated(doc, name, options) ==
  [doc EXCEPT !.name = name,
              !.v = IF IncrementsVersion(options) THEN @ + 1 ELSE @]

(* The document an upsert inserts when no document matches.                  *)
Upserted(name, options) ==
  Doc(IF IncrementsVersion(options) THEN 1 ELSE 0, name)

(* A mutation of findOneAndUpdate: the driver is asked for the document as   *)
(* it was before the update (new: false).                                    *)
FindOneAndUpdateBefore(filter, name, options) ==
  /\ repo.exists
  /\ Unlocked(Matching(filter))
  /\ \E id \in Matching(filter) :
       /\ IncrementsVersion(options) => store[id].v < MaxVersion
       /\ store' = [store EXCEPT ![id] = Updated(@, name, options)]
       /\ sessions' = MarkStale({id})
       /\ last' = [Returns("findOneAndUpdate")
                     EXCEPT !.filter = filter, !.name = name,
                            !.opts = options, !.id = id, !.doc = store[id]]
  /\ UNCHANGED <<repo, procs, probe>>

(* findOneAndUpdate(filterQuery, updatedObject, options): the driver updates *)
(* the first matching document and returns it as it is after the update      *)
(* (new: true); without a match it returns null, or inserts a document when  *)
(* options.upsert. The increments of the version stop at MaxVersion.         *)
FindOneAndUpdate(filter, name, options) ==
  /\ repo.exists
  /\ Unlocked(Matching(filter))
  /\ \/ \E id \in Matching(filter) :
          /\ IncrementsVersion(options) => store[id].v < MaxVersion
          /\ store' = [store EXCEPT ![id] = Updated(@, name, options)]
          /\ sessions' = MarkStale({id})
          /\ last' = [Returns("findOneAndUpdate")
                        EXCEPT !.filter = filter, !.name = name,
                               !.opts = options, !.id = id,
                               !.doc = Updated(store[id], name, options)]
     \/ /\ Matching(filter) = {}
        /\ ~UpdateOptionsOf(options).upsert
        /\ last' = [Returns("findOneAndUpdate")
                      EXCEPT !.filter = filter, !.name = name,
                             !.opts = options]
        /\ UNCHANGED <<store, sessions>>
     \/ /\ Matching(filter) = {}
        /\ UpdateOptionsOf(options).upsert
        /\ \E id \in Ids :
             /\ ~store[id].exists
             /\ store' = [store EXCEPT ![id] = Upserted(name, options)]
             /\ sessions' = MarkStale({id})
             /\ last' = [Returns("findOneAndUpdate")
                           EXCEPT !.filter = filter, !.name = name,
                                  !.opts = options, !.id = id,
                                  !.doc = Upserted(name, options)]
     \/ \E e \in DriverFailures :
          /\ last' = [Translated("findOneAndUpdate", e, TRUE)
                        EXCEPT !.filter = filter, !.name = name,
                               !.opts = options]
          /\ UNCHANGED <<store, sessions>>
  /\ UNCHANGED <<repo, procs, probe>>

-----------------------------------------------------------------------------
(* deleteOne and deleteMany.                                                 *)

(* The collection without the documents of ids.                              *)
Without(ids) == [id \in Ids |-> IF id \in ids THEN NoDoc ELSE store[id]]

(* deleteResult.deletedCount >= 1                                            *)
Deleted(deletedCount) == deletedCount >= 1

(* A mutation of deleteOne: the result is deletedCount > 1.                  *)
DeleteOneMoreThanOne(filter) ==
  /\ repo.exists
  /\ Unlocked(Matching(filter))
  /\ \/ /\ Matching(filter) = {}
        /\ last' = [Returns("deleteOne") EXCEPT !.filter = filter]
        /\ UNCHANGED <<store, sessions>>
     \/ \E id \in Matching(filter) :
          /\ store' = Without({id})
          /\ sessions' = MarkStale({id})
          /\ last' = [Returns("deleteOne") EXCEPT !.filter = filter]
     \/ \E e \in DriverFailures :
          /\ last' = [Translated("deleteOne", e, TRUE) EXCEPT !.filter = filter]
          /\ UNCHANGED <<store, sessions>>
  /\ UNCHANGED <<repo, procs, probe>>

(* deleteOne(filterQuery): the driver removes the first matching document,   *)
(* if there is one, and reports the number removed.                          *)
DeleteOne(filter) ==
  /\ repo.exists
  /\ Unlocked(Matching(filter))
  /\ \/ /\ Matching(filter) = {}
        /\ last' = [Returns("deleteOne") EXCEPT !.filter = filter,
                                                !.flag = Deleted(0)]
        /\ UNCHANGED <<store, sessions>>
     \/ \E id \in Matching(filter) :
          /\ store' = Without({id})
          /\ sessions' = MarkStale({id})
          /\ last' = [Returns("deleteOne") EXCEPT !.filter = filter,
                                                  !.flag = Deleted(1)]
     \/ \E e \in DriverFailures :
          /\ last' = [Translated("deleteOne", e, TRUE) EXCEPT !.filter = filter]
          /\ UNCHANGED <<store, sessions>>
  /\ UNCHANGED <<repo, procs, probe>>

(* deleteMany(filterQuery): the driver removes every matching document.      *)
DeleteMany(filter) ==
  /\ repo.exists
  /\ Unlocked(Matching(filter))
  /\ \/ /\ store' = Without(Matching(filter))
        /\ sessions' = MarkStale(Matching(filter))
        /\ last' = [Returns("deleteMany")
                      EXCEPT !.filter = filter,
                             !.flag = Deleted(Cardinality(Matching(filter)))]
     \/ \E e \in DriverFailures :
          /\ last' = [Translated("deleteMany", e, TRUE) EXCEPT !.filter = filter]
          /\ UNCHANGED <<store, sessions>>
  /\ UNCHANGED <<repo, procs, probe>>

-----------------------------------------------------------------------------
(* Transaction and session management.                                       *)

(* A mutation of startTransaction: the session is returned without a         *)
(* transaction started on it.                                                *)
StartTransactionNotStarted ==
  /\ repo.exists
  /\ Len(sessions) < MaxSessions
  /\ sessions' = Append(sessions, [NewSession(0) EXCEPT !.txn = "none"])
  /\ last' = [Returns("startTransaction") EXCEPT !.sid = Len(sessions) + 1]
  /\ UNCHANGED <<repo, store, procs, probe>>

(* startTransaction(): startSession, then session.startTransaction(), with   *)
(* no try block: a failure of startSession leaves the method as it is.       *)
StartTransaction ==
  /\ repo.exists
  /\ Len(sessions) < MaxSessions
  /\ \/ /\ sessions' = Append(sessions, NewSession(0))
        /\ last' = [Returns("startTransaction") EXCEPT
                      !.sid = Len(sessions) + 1]
     \/ /\ \E e \in DriverFailures : last' = Raw("startTransaction", e)
        /\ UNCHANGED sessions
  /\ UNCHANGED <<repo, store, procs, probe>>

(* commitTransaction(session): session.commitTransaction(); only when it     *)
(* fails, session.abortTransaction(), session.endSession() and the           *)
(* translated error. A failing abortTransaction leaves the catch block       *)
(* before endSession.                                                        *)
CommitTransaction(i) ==
  /\ repo.exists
  /\ i \in UserSessions
  /\ ~Issued(sessions[i], "commitTransaction")
  /\ \/ /\ ~sessions[i].failed
        /\ store' = Committed(sessions[i])
        /\ sessions' = AfterCommit(i, "commitTransaction")
        /\ last' = [Returns("commitTransaction") EXCEPT !.sid = i]
     \/ /\ \E e \in DriverFailures :
             LET c == [sessions[i] EXCEPT
                         !.calls = @ \o <<"commitTransaction",
                                          "abortTransaction">>]
             IN  \/ /\ sessions' = [sessions EXCEPT ![i] = Ended(Aborted(c))]
                    /\ last' = [Translated("commitTransaction", e, TRUE)
                                  EXCEPT !.sid = i]
                 \/ /\ sessions' =
                         [sessions EXCEPT ![i] = [c EXCEPT !.failed = TRUE]]
                    /\ \E e2 \in DriverFailures :
                         last' = [Raw("commitTransaction", e2) EXCEPT
                                    !.sid = i]
        /\ UNCHANGED store
  /\ UNCHANGED <<repo, procs, probe>>

(* abortTransaction(session): session.abortTransaction(); only when it       *)
(* fails, session.endSession() and the translated error.                     *)
AbortTransaction(i) ==
  /\ repo.exists
  /\ i \in UserSessions
  /\ ~Issued(sessions[i], "abortTransaction")
  /\ LET c == [sessions[i] EXCEPT !.calls = Append(@, "abortTransaction")]
     IN  \/ /\ sessions' = [sessions EXCEPT ![i] = Aborted(c)]
            /\ last' = [Returns("abortTransaction") EXCEPT !.sid = i]
         \/ /\ sessions' = [sessions EXCEPT ![i] = Ended(c)]
            /\ \E e \in DriverFailures :
                 last' = [Translated("abortTransaction", e, TRUE) EXCEPT
                            !.sid = i]
  /\ UNCHANGED <<repo, store, procs, probe>>

(* A mutation of endTransaction: the transaction is committed before the     *)
(* session is ended.                                                         *)
EndTransactionCommits(i) ==
  /\ repo.exists
  /\ i \in SessionIds
  /\ sessions[i].owner = 0
  /\ ~sessions[i].ended
  /\ store' = Committed(sessions[i])
  /\ sessions' = [AfterCommit(i, "commitTransaction") EXCEPT ![i] = Ended(@)]
  /\ last' = [Returns("endTransaction") EXCEPT !.sid = i]
  /\ UNCHANGED <<repo, procs, probe>>

(* endTransaction(session): session.endSession() and nothing else.          *)
EndTransaction(i) ==
  /\ repo.exists
  /\ i \in SessionIds
  /\ sessions[i].owner = 0
  /\ ~sessions[i].ended
  /\ sessions' = [sessions EXCEPT ![i] = Ended(@)]
  /\ last' = [Returns("endTransaction") EXCEPT !.sid = i]
  /\ UNCHANGED <<repo, store, procs, probe>>

-----------------------------------------------------------------------------
(* updateById: one process per call in flight, one step per driver call the  *)
(* method awaits.                                                            *)

(* The update of updateById: a name to set, with or without a __v.           *)
NoUpdate == [hasV |-> FALSE, v |-> 0, name |-> ""]

Updates ==
  [hasV : {FALSE}, v : {0}, name : Names]
    \cup [hasV : {TRUE}, v : Versions, name : Names]

NoOutcome == [kind |-> "none", exc |-> NoError, doc |-> NoDoc,
              logged |-> FALSE]

IdleProc ==
  [pc |-> "idle", id |-> "", update |-> NoUpdate, sid |-> 0,
   existing |-> NoDoc, error |-> NoError, outcome |-> NoOutcome,
   overlap |-> {}, before |-> EmptyCollection]

InFlight(p) == procs[p].pc \notin {"idle", "done"}

(* The call enters updateById; each process makes one call. overlap          *)
(* collects the calls in flight at any moment of this call, and before is    *)
(* the collection as the call finds it.                                      *)
UpdateByIdCall(p, id, update) ==
  /\ repo.exists
  /\ procs[p].pc = "idle"
  /\ procs' =
       [q \in Procs |->
          IF q = p
            THEN [IdleProc EXCEPT !.pc = "startSession", !.id = id,
                                  !.update = update, !.before = store,
                                  !.overlap = {r \in Procs \ {p} : InFlight(r)}]
          ELSE IF InFlight(q)
            THEN [procs[q] EXCEPT !.overlap = @ \cup {p}]
          ELSE procs[q]]
  /\ UNCHANGED <<repo, store, sessions, last, probe>>

(* const session = await startSession(); session.startTransaction(): before  *)
(* the try block, so a failure leaves the method as the driver raised it.    *)
UpdateByIdStartSession(p) ==
  /\ procs[p].pc = "startSession"
  /\ \/ /\ Len(sessions) < MaxSessions
        /\ sessions' = Append(sessions, NewSession(p))
        /\ procs' = [procs EXCEPT ![p].pc = "findById",
                                  ![p].sid = Len(sessions) + 1]
     \/ /\ \E e \in DriverFailures :
             procs' = [procs EXCEPT ![p].pc = "done", ![p].error = e,
                                    ![p].outcome.kind = "throw",
                                    ![p].outcome.exc = e]
        /\ UNCHANGED sessions
  /\ UNCHANGED <<repo, store, last, probe>>

(* `update.__v && existingDoc.__v !== update.__v`: an absent __v and a __v   *)
(* of 0 are both falsy, and the comparison is then not made.                 *)
VersionConflict(update, existingDoc) ==
  update.hasV /\ update.v # 0 /\ existingDoc.v # update.v

(* existingDoc = await findById(id).session(session), then the two checks    *)
(* that throw inside the try block.                                          *)
UpdateByIdFind(p) ==
  /\ procs[p].pc = "findById"
  /\ LET i == procs[p].sid
         s == [TakeSnap(sessions[i]) EXCEPT !.calls = Append(@, "findById")]
         d == View(s, procs[p].id)
     IN  \/ /\ sessions' = [sessions EXCEPT ![i] = s]
            /\ procs' =
                 IF ~d.exists
                   THEN [procs EXCEPT ![p].pc = "abort",
                           ![p].error =
                             HttpException("No data found with ID "
                                             \o procs[p].id, NOT_FOUND)]
                 ELSE IF VersionConflict(procs[p].update, d)
                   THEN [procs EXCEPT ![p].pc = "abort", ![p].existing = d,
                           ![p].error =
                             HttpException("Concurrency conflict", CONFLICT)]
                 ELSE [procs EXCEPT ![p].pc = "update", ![p].existing = d]
         \/ /\ sessions' =
                 [sessions EXCEPT ![i] =
                    [sessions[i] EXCEPT !.calls = Append(@, "findById"),
                                        !.failed = TRUE]]
            /\ \E e \in DriverFailures :
                 procs' = [procs EXCEPT ![p].pc = "abort", ![p].error = e]
  /\ UNCHANGED <<repo, store, last, probe>>

(* A mutation of updateById: the update is written with the __v the caller   *)
(* supplied, or the stored __v when none was supplied.                       *)
UpdateByIdWriteSameVersion(p) ==
  /\ procs[p].pc = "update"
  /\ LET i == procs[p].sid
         id == procs[p].id
         s == [sessions[i] EXCEPT !.calls = Append(@, "findByIdAndUpdate")]
         new == Doc(IF procs[p].update.hasV THEN procs[p].update.v
                    ELSE procs[p].existing.v, procs[p].update.name)
     IN  \/ /\ ~WriteConflict(i, id)
            /\ sessions' =
                 [sessions EXCEPT ![i] =
                    [s EXCEPT !.writes[id] = [written |-> TRUE, doc |-> new]]]
            /\ procs' = [procs EXCEPT ![p].pc = "commit",
                                      ![p].outcome.doc = new]
         \/ /\ sessions' = [sessions EXCEPT ![i] = [s EXCEPT !.failed = TRUE]]
            /\ \E e \in (IF WriteConflict(i, id) THEN {WriteConflictError}
                         ELSE {}) \cup DriverFailures :
                 procs' = [procs EXCEPT ![p].pc = "abort", ![p].error = e]
  /\ UNCHANGED <<repo, store, last, probe>>

(* updatedDoc = await findByIdAndUpdate(id, { ...update, __v:                *)
(* existingDoc.__v + 1 }, { new: true }).session(session).                   *)
UpdateByIdWrite(p) ==
  /\ procs[p].pc = "update"
  /\ LET i == procs[p].sid
         id == procs[p].id
         s == [sessions[i] EXCEPT !.calls = Append(@, "findByIdAndUpdate")]
         new == Doc(procs[p].existing.v + 1, procs[p].update.name)
     IN  \/ /\ ~WriteConflict(i, id)
            /\ sessions' =
                 [sessions EXCEPT ![i] =
                    [s EXCEPT !.writes[id] = [written |-> TRUE, doc |-> new]]]
            /\ procs' = [procs EXCEPT ![p].pc = "commit",
                                      ![p].outcome.doc = new]
         \/ /\ sessions' = [sessions EXCEPT ![i] = [s EXCEPT !.failed = TRUE]]
            /\ \E e \in (IF WriteConflict(i, id) THEN {WriteConflictError}
                         ELSE {}) \cup DriverFailures :
                 procs' = [procs EXCEPT ![p].pc = "abort", ![p].error = e]
  /\ UNCHANGED <<repo, store, last, probe>>

(* A mutation of updateById: a failed commitTransaction is tried a second    *)
(* time before the catch block runs.                                         *)
UpdateByIdCommitRetried(p) ==
  /\ procs[p].pc = "commit"
  /\ LET i == procs[p].sid
     IN  \/ /\ ~sessions[i].failed
            /\ store' = Committed(sessions[i])
            /\ sessions' =
                 [AfterCommit(i, "commitTransaction") EXCEPT ![i] = Ended(@)]
            /\ procs' = [procs EXCEPT ![p].pc = "done",
                                      ![p].outcome.kind = "return"]
         \/ /\ sessions' =
                 [sessions EXCEPT ![i].calls =
                    Append(Append(@, "commitTransaction"), "commitTransaction")]
            /\ \E e \in DriverFailures :
                 procs' = [procs EXCEPT ![p].pc = "abort", ![p].error = e,
                                        ![p].outcome.doc = NoDoc]
            /\ UNCHANGED store
  /\ UNCHANGED <<repo, last, probe>>

(* await session.commitTransaction(); session.endSession(); return           *)
(* updatedDoc. A failed commit goes to the catch block.                      *)
UpdateByIdCommit(p) ==
  /\ procs[p].pc = "commit"
  /\ LET i == procs[p].sid
     IN  \/ /\ ~sessions[i].failed
            /\ store' = Committed(sessions[i])
            /\ sessions' =
                 [AfterCommit(i, "commitTransaction") EXCEPT ![i] = Ended(@)]
            /\ procs' = [procs EXCEPT ![p].pc = "done",
                                      ![p].outcome.kind = "return"]
         \/ /\ sessions' =
                 [sessions EXCEPT ![i].calls = Append(@, "commitTransaction")]
            /\ \E e \in DriverFailures :
                 procs' = [procs EXCEPT ![p].pc = "abort", ![p].error = e,
                                        ![p].outcome.doc = NoDoc]
            /\ UNCHANGED store
  /\ UNCHANGED <<repo, last, probe>>

(* The catch block: await session.abortTransaction(); session.endSession();  *)
(* this.handleDatabaseError(error). A failing abortTransaction leaves the    *)
(* catch block at once.                                                      *)
UpdateByIdAbort(p) ==
  /\ procs[p].pc = "abort"
  /\ LET i == procs[p].sid
         c == [sessions[i] EXCEPT !.calls = Append(@, "abortTransaction")]
         h == handleDatabaseError(procs[p].error, repo.errLogger)
     IN  \/ /\ sessions' = [sessions EXCEPT ![i] = Ended(Aborted(c))]
            /\ procs' = [procs EXCEPT ![p].pc = "done",
                                      ![p].outcome.kind = "throw",
                                      ![p].outcome.doc = NoDoc,
                                      ![p].outcome.exc = h.exc,
                                      ![p].outcome.logged = h.logged]
         \/ /\ sessions' = [sessions EXCEPT ![i] = c]
            /\ \E e2 \in DriverFailures :
                 procs' = [procs EXCEPT ![p].pc = "done",
                                        ![p].outcome.kind = "throw",
                                        ![p].outcome.doc = NoDoc,
                                        ![p].outcome.exc = e2]
  /\ UNCHANGED <<repo, store, last, probe>>

-----------------------------------------------------------------------------
(* The specification of the repository.                                      *)

NoProbe == [error |-> NoError, errLogger |-> FALSE, result |-> NoError,
            logged |-> FALSE, done |-> FALSE]

Init ==
  /\ repo = NoRepo
  /\ store = [EmptyCollection EXCEPT !["id1"] = Doc(0, "ann")]
  /\ sessions = <<>>
  /\ procs = [p \in Procs |-> IdleProc]
  /\ last = NoLast
  /\ probe = NoProbe

Next ==
  \/ \E arg \in CtorArgs : Construct(arg)
  \/ \E f \in Filters : Find(f)
  \/ \E f \in Filters : FindOne(f)
  \/ \E id \in Ids : FindById(id)
  \/ \E f \in Filters : Count(f)
  \/ \E id \in Ids, name \in Names : Create(id, name)
  \/ \E f \in Filters : DeleteOne(f)
  \/ \E f \in Filters : DeleteMany(f)
  \/ \E f \in Filters, name \in Names : UpdateOne(f, name)
  \/ \E f \in Filters, name \in Names : UpdateMany(f, name)
  \/ \E f \in Filters, name \in Names, o \in UpdateOptions :
       FindOneAndUpdate(f, name, o)
  \/ \E text \in SearchTexts, field \in SearchFields :
       FullTextSearch(text, field)

Spec == Init /\ [][Next]_vars

(* A constructed repository with the default options.                        *)
Constructed == [exists |-> TRUE, entityModel |-> TRUE, errLogger |-> FALSE]

(* Transactions the caller runs through the repository: sessions opened by   *)
(* startTransaction, documents created in them, and their end.               *)
InitTransactions ==
  /\ repo = Constructed
  /\ store = [EmptyCollection EXCEPT !["id1"] = Doc(0, "ann")]
  /\ sessions = <<>>
  /\ procs = [p \in Procs |-> IdleProc]
  /\ last = NoLast
  /\ probe = NoProbe

NextTransactions ==
  \/ StartTransaction
  \/ \E id \in Ids, i \in SessionIds : CreateInSession(id, "bob", i)
  \/ \E i \in SessionIds : CommitTransaction(i)
  \/ \E i \in SessionIds : AbortTransaction(i)
  \/ \E i \in SessionIds : EndTransaction(i)

SpecTransactions == InitTransactions /\ [][NextTransactions]_vars

(* The concurrent calls of updateById on a constructed repository.           *)
InitUpdateById ==
  /\ repo = Constructed
  /\ store = [EmptyCollection EXCEPT !["id1"] = Doc(0, "ann")]
  /\ sessions = <<>>
  /\ procs = [p \in Procs |-> IdleProc]
  /\ last = NoLast
  /\ probe = NoProbe

NextUpdateById ==
  \/ \E p \in Procs, id \in Ids, u \in Updates : UpdateByIdCall(p, id, u)
  \/ \E p \in Procs : UpdateByIdStartSession(p)
  \/ \E p \in Procs : UpdateByIdFind(p)
  \/ \E p \in Procs : UpdateByIdWrite(p)
  \/ \E p \in Procs : UpdateByIdCommit(p)
  \/ \E p \in Procs : UpdateByIdAbort(p)

SpecUpdateById == InitUpdateById /\ [][NextUpdateById]_vars

(* Calls of updateById one after the other: one caller, who calls again      *)
(* after each call has completed.                                            *)
Caller == CHOOSE p \in Procs : \A q \in Procs : p <= q

UpdateByIdAgain(p) ==
  /\ procs[p].pc = "done"
  /\ procs' = [procs EXCEPT ![p] = IdleProc]
  /\ UNCHANGED <<repo, store, sessions, last, probe>>

NextSequential ==
  \/ \E id \in Ids, u \in Updates : UpdateByIdCall(Caller, id, u)
  \/ UpdateByIdStartSession(Caller)
  \/ UpdateByIdFind(Caller)
  \/ UpdateByIdWrite(Caller)
  \/ UpdateByIdCommit(Caller)
  \/ UpdateByIdAbort(Caller)
  \/ UpdateByIdAgain(Caller)

SpecSequential == InitUpdateById /\ [][NextSequential]_vars

-----------------------------------------------------------------------------
(* The error table on its own: handleDatabaseError applied to every error    *)
(* of a bounded set, under both settings of errLogger.                       *)

TableCodes == {11000, 11001, 12000, 12010, 12102, 12134}

OtherCodes == {50, 112, 11002, 12001, 12135}

KeyValues ==
  {NoKeyValue, KeyValue(<<>>), KeyValue(<<"ann">>), KeyValue(<<"bob", "ann">>)}

(* What reaches handleDatabaseError: errors of the driver, with or without   *)
(* a code and a keyValue, and the HttpExceptions thrown inside try blocks.   *)
TableErrors ==
  {MongoError(TRUE, c, kv) : c \in TableCodes \cup OtherCodes, kv \in KeyValues}
    \cup {MongoError(FALSE, 0, kv) : kv \in KeyValues}
    \cup {HttpException("No data found with ID id2", NOT_FOUND),
          HttpException("Concurrency conflict", CONFLICT)}

InitTable ==
  /\ repo = Constructed
  /\ store = EmptyCollection
  /\ sessions = <<>>
  /\ procs = [p \in Procs |-> IdleProc]
  /\ last = NoLast
  /\ probe \in [error : TableErrors, errLogger : BOOLEAN, result : {NoError},
                logged : {FALSE}, done : {FALSE}]

HandleDatabaseError ==
  /\ ~probe.done
  /\ probe' = [probe EXCEPT
                 !.result = handleDatabaseError(probe.error,
                                                probe.errLogger).exc,
                 !.logged = handleDatabaseError(probe.error,
                                                probe.errLogger).logged,
                 !.done = TRUE]
  /\ UNCHANGED <<repo, store, sessions, procs, last>>

NextTable == HandleDatabaseError

SpecTable == InitTable /\ [][NextTable]_vars

-----------------------------------------------------------------------------
(* The claims.                                                               *)

(* C1: whenever the driver call of a public method fails, the method fails   *)
(* with an HttpException, never with the driver's own exception.             *)
C1_DriverFailureIsHttpException ==
  (last.kind = "throw" /\ last.driverFailed) => last.exc.type = "HttpException"

(* The message the table fixes for a code other than 11000.                  *)
TableMessage(code) ==
  CASE code = 11001 -> "Duplicate key error"
    [] code = 12000 -> "Invalid index specification"
    [] code = 12010 -> "Cannot build index on a non-existing field"
    [] code = 12102 -> "Index key too long"
    [] code = 12134 -> "Index not found"

(* C2: the translation is a fixed table on the error code: each of the six   *)
(* codes of the table gives BAD_REQUEST with its message (for 11000 the      *)
(* first value of keyValue followed by " already exists"), and every other   *)
(* code, or no code, gives INTERNAL_SERVER_ERROR "Database operation          *)
(* failed".                                                                  *)
C2_FixedTable ==
  probe.done =>
    LET e == probe.error
        r == probe.result
    IN  IF e.hasCode /\ e.code = 11000
          THEN /\ r.type = "HttpException"
               /\ r.status = BAD_REQUEST
               /\ Len(e.keyValue.values) > 0 =>
                    r.message = e.keyValue.values[1] \o " already exists"
        ELSE IF e.hasCode /\ e.code \in TableCodes
          THEN r = HttpException(TableMessage(e.code), BAD_REQUEST)
        ELSE r = HttpException("Database operation failed",
                               INTERNAL_SERVER_ERROR)

(* C3: findById(id) fails with an HttpException NOT_FOUND when no document   *)
(* has the id, and returns the document when one has.                        *)
C3_FindByIdNotFound ==
  (last.op = "findById" /\ ~last.driverFailed) =>
    IF store[last.id].exists
      THEN last.kind = "return" /\ last.doc = store[last.id]
      ELSE /\ last.kind = "throw"
           /\ last.exc.type = "HttpException"
           /\ last.exc.status = NOT_FOUND

(* C4: of two concurrent updateById calls on one document that carry the     *)
(* same __v, at most one succeeds.                                           *)
C4_AtMostOneSucceeds ==
  \A p, q \in Procs :
    ( /\ p # q
      /\ q \in procs[p].overlap
      /\ procs[p].pc = "done" /\ procs[q].pc = "done"
      /\ procs[p].id = procs[q].id
      /\ procs[p].update.hasV /\ procs[q].update.hasV
      /\ procs[p].update.v = procs[q].update.v )
    => ~(procs[p].outcome.kind = "return" /\ procs[q].outcome.kind = "return")

(* C5: an updateById whose update carries a __v different from the __v of    *)
(* the stored document fails with an HttpException CONFLICT "Concurrency     *)
(* conflict" (no driver call failing).                                       *)
C5_ConflictStatus ==
  \A p \in Procs :
    ( /\ procs[p].pc = "done"
      /\ procs[p].update.hasV
      /\ procs[p].existing.exists
      /\ procs[p].existing.v # procs[p].update.v
      /\ procs[p].error.type # "MongoError"
      /\ procs[p].outcome.exc.type # "MongoError" )
    => /\ procs[p].outcome.kind = "throw"
       /\ procs[p].outcome.exc =
            HttpException("Concurrency conflict", CONFLICT)

(* C6: after commitTransaction(session) returns normally the transaction of  *)
(* the session is committed and the session is ended.                        *)
C6_CommitEndsSession ==
  (last.op = "commitTransaction" /\ last.kind = "return") =>
    /\ sessions[last.sid].txn = "committed"
    /\ sessions[last.sid].ended

(* C7: after abortTransaction(session) returns normally the transaction of   *)
(* the session is aborted and the session is ended.                          *)
C7_AbortEndsSession ==
  (last.op = "abortTransaction" /\ last.kind = "return") =>
    /\ sessions[last.sid].txn = "aborted"
    /\ sessions[last.sid].ended

(* C8: endTransaction(session) ends the session, issues endSession and no    *)
(* other driver call on it (no commit, no abort), touches no other session   *)
(* and leaves the stored documents as they were.                             *)
C8_EndTransactionOnlyEnds ==
  [][ last'.op = "endTransaction" =>
        /\ store' = store
        /\ Len(sessions') = Len(sessions)
        /\ sessions'[last'.sid].ended
        /\ sessions'[last'.sid].calls =
             Append(sessions[last'.sid].calls, "endSession")
        /\ \A j \in SessionIds : j # last'.sid => sessions'[j] = sessions[j]
    ]_vars

(* A session with a document created in it, not committed, was ended by      *)
(* endTransaction.                                                           *)
C8_Witness ==
  /\ last.op = "endTransaction"
  /\ sessions[last.sid].calls =
       <<"startSession", "startTransaction", "save", "endSession">>
  /\ ~sessions[last.sid].failed
  /\ ~store["id2"].exists

(* C9: startTransaction() returns a session that no earlier call opened,     *)
(* not ended, with a transaction in progress; the sessions opened before     *)
(* are as they were.                                                         *)
C9_StartTransactionFresh ==
  [][ (last'.op = "startTransaction" /\ last'.kind = "return") =>
        /\ last'.sid \notin 1..Len(sessions)
        /\ last'.sid \in 1..Len(sessions')
        /\ ~sessions'[last'.sid].ended
        /\ sessions'[last'.sid].txn = "active"
        /\ \A j \in SessionIds : sessions'[j] = sessions[j]
    ]_vars

(* A second session was opened while the first is still in use.              *)
C9_Witness ==
  /\ last.op = "startTransaction"
  /\ last.kind = "return"
  /\ last.sid = 2
  /\ ~sessions[1].ended

(* C10: a constructor call with no options, or with options that lack       *)
(* entityModel, throws the Error "entityModel is required" and leaves no     *)
(* instance; every instance that exists has an entityModel.                  *)
C10_EntityModelRequired ==
  /\ repo.exists => repo.entityModel
  /\ (last.op = "constructor" /\ (~last.arg.given \/ ~last.arg.entityModel)) =>
       /\ last.kind = "throw"
       /\ last.exc = PlainError("entityModel is required")
       /\ ~repo.exists
  /\ (last.op = "constructor" /\ last.kind = "return") => repo.exists

(* A constructor call with options that lack entityModel has thrown.         *)
C10_Witness ==
  /\ last.op = "constructor"
  /\ last.arg.given
  /\ ~last.arg.entityModel
  /\ last.kind = "throw"
  /\ ~repo.exists

(* C11: deleteOne returns true exactly when it removed a document and false  *)
(* when no document matched, and removes at most one document, which matched *)
(* the filter; deleteMany returns true exactly when it removed at least one  *)
(* document, and removes every document that matched and no other.           *)
Removed == {id \in Ids : store[id].exists /\ store'[id] # store[id]}

Kept == \A id \in Ids \ Removed : store'[id] = store[id]

C11_DeleteResult ==
  [][/\ (last'.op = "deleteOne" /\ last'.kind = "return")
          => /\ Removed \subseteq Matching(last'.filter)
             /\ \A id \in Removed : ~store'[id].exists
             /\ Cardinality(Removed) <= 1
             /\ Kept
             /\ last'.flag <=> Removed # {}
             /\ Matching(last'.filter) = {} => ~last'.flag
     /\ (last'.op = "deleteMany" /\ last'.kind = "return")
          => /\ Removed = Matching(last'.filter)
             /\ \A id \in Removed : ~store'[id].exists
             /\ Kept
             /\ last'.flag <=> Removed # {}]_vars

(* deleteOne has removed one of two matching documents and returned true.    *)
C11_Witness ==
  /\ last.op = "deleteOne" /\ last.kind = "return" /\ last.flag
  /\ last.filter.all
  /\ Cardinality({id \in Ids : store[id].exists}) = 1

(* C12: updateOne and updateMany return the number of documents they         *)
(* modified, a number that is 0 when nothing was modified; the documents     *)
(* modified matched the filter and carry the update; updateOne modifies at   *)
(* most one document.                                                        *)
Modified == {id \in Ids : store'[id] # store[id]}

C12_ModifiedCount ==
  [][(last'.op \in {"updateOne", "updateMany"} /\ last'.kind = "return")
       => /\ last'.n \in Nat
          /\ last'.n = Cardinality(Modified)
          /\ Modified = {} => last'.n = 0
          /\ Modified \subseteq Matching(last'.filter)
          /\ \A id \in Modified : store'[id] = Renamed(store[id], last'.name)
          /\ last'.op = "updateOne" => Cardinality(Modified) <= 1]_vars

(* updateOne has matched a document that already carries the update, and    *)
(* returned 0.                                                               *)
C12_Witness ==
  /\ last.op = "updateOne" /\ last.kind = "return" /\ last.n = 0
  /\ \E id \in Matching(last.filter) : store[id].name = last.name

(* C13: findOne, when the driver does not fail, returns: null (no document)  *)
(* when no stored document matches the filter, and otherwise a stored        *)
(* document that matches it; a query without a match is no exception; the    *)
(* collection is left as it was.                                             *)
C13_FindOneOrNull ==
  [][(last'.op = "findOne" /\ ~last'.driverFailed)
       => /\ last'.kind = "return"
          /\ last'.exc = NoError
          /\ store' = store
          /\ IF Matching(last'.filter) = {}
               THEN last'.doc = NoDoc
               ELSE /\ last'.id \in Matching(last'.filter)
                    /\ last'.doc = store[last'.id]]_vars

(* findOne has returned null for a filter that no stored document matches,   *)
(* with a document in the collection.                                        *)
C13_Witness ==
  /\ last.op = "findOne" /\ last.kind = "return" /\ last.doc = NoDoc
  /\ Matching(last.filter) = {}
  /\ \E id \in Ids : store[id].exists

(* C14: findOneAndUpdate with the default options, when it returns: with a   *)
(* matching document, one matching document carries the update, keeps its    *)
(* version, and is returned as it is after the update; without a match the   *)
(* result is null and nothing is stored; no other document changes.          *)
DefaultOptions(options) ==
  /\ UpdateOptionsOf(options).versionKey = "__v"
  /\ ~UpdateOptionsOf(options).incVersion
  /\ ~UpdateOptionsOf(options).upsert

C14_FindOneAndUpdateDefaults ==
  [][(/\ last'.op = "findOneAndUpdate"
      /\ last'.kind = "return"
      /\ DefaultOptions(last'.opts))
       => IF Matching(last'.filter) = {}
            THEN last'.doc = NoDoc /\ store' = store
            ELSE /\ last'.id \in Matching(last'.filter)
                 /\ last'.doc.exists
                 /\ last'.doc = store'[last'.id]
                 /\ last'.doc.name = last'.name
                 /\ last'.doc.v = store[last'.id].v
                 /\ \A id \in Ids \ {last'.id} : store'[id] = store[id]]_vars

(* findOneAndUpdate without an options argument has renamed a document and   *)
(* returned it under its new name.                                           *)
C14_Witness ==
  /\ last.op = "findOneAndUpdate" /\ last.kind = "return"
  /\ ~last.opts.given
  /\ ~last.filter.all /\ last.filter.name # last.name
  /\ last.doc.exists /\ last.doc = store[last.id]

(* C15: no retries. The session of an updateById call records every driver   *)
(* call the operation issued: each of findById, findByIdAndUpdate,           *)
(* commitTransaction and abortTransaction occurs in it at most once, so a    *)
(* call that failed was not attempted again.                                 *)
DataCalls ==
  {"findById", "findByIdAndUpdate", "commitTransaction", "abortTransaction"}

Occurrences(calls, call) ==
  Cardinality({k \in 1..Len(calls) : calls[k] = call})

C16_LoggedWhenErrLogger ==
  (repo.exists /\ last.kind = "throw" /\ last.op # "constructor")
    => (last.logged <=> repo.errLogger)

(* C17: when the driver query of fullTextSearch fails, the call fails with   *)
(* an HttpException.                                                         *)
C17_FullTextSearchTranslated ==
  (last.op = "fullTextSearch" /\ last.driverFailed)
    => /\ last.kind = "throw"
       /\ last.exc.type = "HttpException"
       /\ last.exc.status = INTERNAL_SERVER_ERROR

(* C18: a successful updateById stores the document with the stored __v      *)
(* plus 1 and the update's fields, and returns the document as stored; with  *)
(* calls that do not overlap, the __v of the document is its initial __v (0) *)
(* plus the number of calls that succeeded (one committed transaction each). *)
Succeeds(p) ==
  /\ procs[p].pc = "commit"
  /\ procs'[p].pc = "done"
  /\ procs'[p].outcome.kind = "return"

Successes == Cardinality({i \in SessionIds : sessions[i].txn = "committed"})

C18_VersionPlusOne ==
  /\ [](store["id1"].exists /\ store["id1"].v = Successes)
  /\ [][\A p \in Procs :
          Succeeds(p)
            => /\ store'[procs[p].id].v = store[procs[p].id].v + 1
               /\ store'[procs[p].id].name = procs[p].update.name
               /\ procs'[p].outcome.doc = store'[procs[p].id]
               /\ \A id \in Ids \ {procs[p].id} : store'[id] = store[id]]_vars

(* Every session the bound allows has carried a successful call: the __v is  *)
(* MaxSessions.                                                              *)
C18_Witness ==
  /\ store["id1"].v = MaxSessions
  /\ \E p \in Procs :
       /\ procs[p].pc = "done" /\ procs[p].outcome.kind = "return"
       /\ procs[p].outcome.doc = store["id1"]

(* C19: the version comparison of updateById covers every supplied __v,      *)
(* 0 included: a call whose update carries a __v other than the __v of the   *)
(* document it read does not go on to write the document, and fails.         *)
C19_EveryVersionCompared ==
  \A p \in Procs :
    (/\ procs[p].existing.exists
     /\ procs[p].update.hasV
     /\ procs[p].update.v # procs[p].existing.v)
      => /\ procs[p].pc \notin {"update", "commit"}
         /\ procs[p].outcome.kind # "return"

(* C20: an updateById that failed because the id was not found, the version *)
(* conflicted, the update failed in the driver or the commit failed leaves   *)
(* the stored documents as they were before the call, and the transaction it *)
(* opened is aborted with none of its writes pending.                        *)
Failed(p) == procs[p].pc = "done" /\ procs[p].outcome.kind = "throw"

ListedFailure(p) ==
  /\ Failed(p)
  /\ procs[p].sid # 0
  /\ \/ procs[p].error.type = "HttpException"
     \/ Issued(sessions[procs[p].sid], "findByIdAndUpdate")

C20_FailedLeavesNoTrace ==
  \A p \in Procs :
    ListedFailure(p)
      => /\ store = procs[p].before
         /\ sessions[procs[p].sid].txn = "aborted"
         /\ sessions[procs[p].sid].writes = NoWrites

(* C21: every updateById call that has completed and had opened a session    *)
(* has ended that session exactly once, and its transaction is committed     *)
(* when the call returned and aborted when it threw.                         *)
C21_SessionResolved ==
  \A p \in Procs :
    (procs[p].pc = "done" /\ procs[p].sid # 0)
      => /\ sessions[procs[p].sid].ended
         /\ Occurrences(sessions[procs[p].sid].calls, "endSession") = 1
         /\ procs[p].outcome.kind = "return"
              => sessions[procs[p].sid].txn = "committed"
         /\ procs[p].outcome.kind = "throw"
              => sessions[procs[p].sid].txn = "aborted"

(* C22: when the driver's commit fails inside commitTransaction(session),    *)
(* the repository has issued abortTransaction and then endSession after the  *)
(* commit, the call throws the translated HttpException, and the transaction *)
(* is not committed.                                                         *)
LastCalls(calls, n) == SubSeq(calls, Len(calls) - n + 1, Len(calls))

C22_CommitFailureOrder ==
  (last.op = "commitTransaction" /\ last.driverFailed)
    => /\ last.kind = "throw"
       /\ last.exc.type = "HttpException"
       /\ Len(sessions[last.sid].calls) >= 3
       /\ LastCalls(sessions[last.sid].calls, 3) =
            <<"commitTransaction", "abortTransaction", "endSession">>
       /\ sessions[last.sid].ended
       /\ sessions[last.sid].txn = "aborted"

(* C23: in every interleaving of updateById calls the stored __v of a        *)
(* document never decreases and the document stays stored; the stored        *)
(* document changes only in the commit of a successful call on it, and that  *)
(* commit raises the __v by exactly 1 over the value stored just before it.  *)
C23_VersionMonotone ==
  [][/\ \A id \in Ids :
          /\ store[id].exists
               => store'[id].exists /\ store'[id].v >= store[id].v
          /\ store'[id] # store[id]
               => \E p \in Procs : Succeeds(p) /\ procs[p].id = id
     /\ \A p \in Procs :
          Succeeds(p)
            => store'[procs[p].id].v = store[procs[p].id].v + 1]_vars

(* Two calls that overlapped have both succeeded, one commit after the       *)
(* other: the __v went up by one twice.                                      *)
C23_Witness ==
  \E p \in Procs, q \in Procs :
    /\ p # q /\ q \in procs[p].overlap
    /\ procs[p].pc = "done" /\ procs[p].outcome.kind = "return"
    /\ procs[q].pc = "done" /\ procs[q].outcome.kind = "return"
    /\ procs[p].id = procs[q].id
    /\ store[procs[p].id].v = 2

=============================================================================
